---- MODULE Spec2Model ----
(***************************************************************************)
(* Model of trivelle/worker: the output multiplexer                        *)
(* (src/lib/worker/output.go, lines 1-187: OutputHandler, specification    *)
(* Spec), the process handle (src/lib/worker/process/process.go: Process,  *)
(* specification SpecProc) and the parser of /proc/<pid>/stat              *)
(* (retrieveProcessState, specification SpecStat).                         *)
(*                                                                         *)
(* Goroutines of one OutputHandler:                                        *)
(*   - one producer per reader        (bufferAndForwardLines)              *)
(*   - the wait-group waiter          (handleOutput, lines 160-164)        *)
(*   - the broadcaster                (handleBroadcast)                    *)
(*   - one goroutine per AddListener  (AddListener, lines 74-87)           *)
(* A subscriber is the caller of AddListener; it ranges over its output    *)
(* channel, so a send on that (unbuffered) channel completes as soon as    *)
(* the sender reaches it.                                                  *)
(*                                                                         *)
(* A byte is the number r * 256 + c: c is the byte value the code sees, r  *)
(* is a ghost tag naming the reader the byte comes from.  The code never   *)
(* looks at the tag.                                                       *)
(*                                                                         *)
(* Calls on one Process handle: Start, Stop and GetProcessStatus, each by  *)
(* a goroutine of its own.  Start and Stop run under p.mu; GetProcessStatus*)
(* takes no lock; WithStatus holds p.mu around GetProcessStatus and its     *)
(* callback (specification SpecWith).  In SpecReap the owner of the        *)
(* command also waits for it (cmd.Wait), which reaps the child.            *)
(*                                                                         *)
(* Further specifications of the multiplexer: SpecEarly (a subscriber is   *)
(* attached before the first read), SpecDrain (no subscriber, fair         *)
(* goroutines), SpecStall (a subscriber may stop receiving) and SpecNew    *)
(* (NewOutputHandler as an operation).  The Worker of src/unnamed/part_003 *)
(* is SpecWorker; SpecDirect is the Worker of the earlier                  *)
(* src/unnamed/part_002, whose registry is a map without a lock.           *)
(***************************************************************************)
EXTENDS Integers, Sequences, FiniteSets, TLC

\* ------------------------------------------------------------------ bounds
\* Number of bytes the two readers yield in total.
MaxBytes == 2
\* Number of AddListener calls made on the handler.
NumListeners == 2
\* Number of Start / Stop / GetProcessStatus calls made on a Process handle.
NumCalls == 3
\* Longest executable name in a /proc/<pid>/stat content.
MaxComm == 2
\* Number of calls made on the Worker.
NumWCalls == 3
\* Number of bytes the readers yield in total when the constructor is an operation.
CtorBytes == 1

\* --------------------------------------------------------------- constants
\* The handler is built over stdout and stderr of the child.
NumReaders == 2
\* '\n', the delimiter handed to bufio.Reader.ReadBytes.
NL == 10
Readers == 1..NumReaders
Subs == 1..NumListeners
\* Byte values of the reader contents: the delimiter and 's'.
ByteValues == {NL, 115}

VARIABLES
    readers,        \* readers[r] = [data |-> bytes, fails |-> read error instead of EOF]
    pos,            \* pos[r]: bytes of reader r consumed by its producer
    prodPc,         \* producer position: "read", "send", "errsend", "exited"
    lineBytes,      \* producer's local lineBytes
    wg,             \* sync.WaitGroup counter of handleOutput
    done,           \* o.done is closed
    combinedBuffer, \* o.combinedBuffer
    listeners,      \* o.listeners: sequence of subscribers
    mu,             \* o.mu is held (only iterListeners holds it across steps)
    bcPc,           \* broadcaster position
    bcMsg,          \* msg received by the broadcaster
    bcIdx,          \* index of the range loop of iterListeners
    subPc,          \* AddListener goroutine position
    received,       \* records received by the subscriber on outputChan
    errorsReceived, \* number of errors received by the subscriber on errorChan
    closeCount,     \* number of close(outputChan) executed
    panicked,       \* a send on, or a close of, a closed channel happened
    errSubs,        \* ghost: listeners registered when a producer hit a fatal read error
    afterDone,      \* ghost: done was already closed when the AddListener goroutine started
    entry           \* the Content an AddListener goroutine read at line 76 and is sending

\* The Process handle of src/lib/worker/process/process.go, its child and
\* the calls made on it.
VARIABLES
    cmdProcess,     \* p.cmd.Process: 0 for nil, else the pid of the spawned child
    startedBy,      \* p.startedBy
    startedAt,      \* p.startedAt: 0 for the zero time.Time
    finishedAt,     \* p.finishedAt: 0 for the zero time.Time
    pmu,            \* p.mu: 0 when free, else the call that holds it
    child,          \* the child in the kernel: "none", "running", "killed", "zombie"
    clock,          \* time.Now(): the value the next reading returns
    prevStartedAt,  \* p.startedAt before the write of the Start that holds p.mu
    spawns,         \* ghost: number of children spawned by cmd.Start()
    kills,          \* ghost: number of SIGKILLs sent by Process.Kill()
    calls,          \* the calls made on the handle, with their results
    statFile,       \* content of /proc/<pid>/stat handed to the state parser
    statOut         \* what the state parser returned for statFile

\* The subscribers' side of the channels, the result of NewOutputHandler, and
\* the Worker of src/unnamed/part_003 with the calls made on it.
VARIABLES
    stalled,         \* subscribers that have stopped receiving on their channels
    newErr,          \* error returned by NewOutputHandler: "nil", or "none" before the call
    processRegistry, \* w.processRegistry: ID -> *ProcessHandle
    heap,            \* the Process and OutputHandler objects StartProcess has made
    wcalls           \* the calls made on the Worker, with their results

prodVars == <<readers, pos, prodPc, lineBytes, wg>>
bcVars == <<bcPc, bcMsg, bcIdx>>
subVars == <<subPc, afterDone, errSubs, entry>>
chanVars == <<received, errorsReceived, closeCount, panicked>>
envVars == <<stalled, newErr>>
muxVars == <<prodVars, done, combinedBuffer, listeners, mu, bcVars, subVars, chanVars, envVars>>
workerVars == <<processRegistry, heap, wcalls>>
handleVars == <<cmdProcess, startedBy, startedAt, finishedAt, pmu, prevStartedAt>>
procVars == <<handleVars, child, clock, spawns, kills, calls>>
statVars == <<statFile, statOut>>
vars == <<muxVars, procVars, statVars, workerVars>>

\* ----------------------------------------------------------------- helpers
RECURSIVE SeqsUpTo(_)
SeqsUpTo(n) ==
    IF n = 0 THEN {<<>>}
    ELSE LET S == SeqsUpTo(n - 1)
         IN S \cup {Append(s, c) : s \in {t \in S : Len(t) = n - 1}, c \in ByteValues}

\* A byte in flight carries the number of the reader it came from above its
\* eight bits, so that the bytes of the two readers can be told apart.
ByteOf(b) == b % 256
ReaderOf(b) == b \div 256
Tagged(r, s) == [i \in 1..Len(s) |-> r * 256 + s[i]]

RECURSIVE Concat(_)
Concat(recs) == IF recs = <<>> THEN <<>> ELSE Head(recs) \o Concat(Tail(recs))

\* bytes.IndexByte on the byte values: first index of c in s, 0 when absent.
IndexByte(s, c) ==
    IF \E i \in 1..Len(s) : ByteOf(s[i]) = c
    THEN CHOOSE i \in 1..Len(s) : ByteOf(s[i]) = c /\ \A j \in 1..(i - 1) : ByteOf(s[j]) # c
    ELSE 0

\* bufio.Reader.ReadBytes(delim) on the unread rest of a reader: the bytes up
\* to and including the first delim with a nil error; when the reader ends
\* before a delim, the bytes read so far with the reader's error (io.EOF, or
\* the read error of a failing reader).
ReadBytes(rest, fails, delim) ==
    LET i == IndexByte(rest, delim)
    IN IF i > 0
       THEN [line |-> SubSeq(rest, 1, i), err |-> "nil"]
       ELSE [line |-> rest, err |-> IF fails THEN "error" ELSE "EOF"]

RECURSIVE SumLen(_, _)
SumLen(rs, n) == IF n = 0 THEN 0 ELSE Len(rs[n].data) + SumLen(rs, n - 1)

TotalBytes(rs) == SumLen(rs, NumReaders)

\* The subscribers in o.listeners.
Registered == {listeners[i] : i \in 1..Len(listeners)}

\* ---------------------------------------------------------- Process handle
Calls == 1..NumCalls

\* The requester identities handed to NewProcess.
Requesters == {"some_user", "hashi"}

\* The pids the kernel gives to a spawned child.
Pids == {41, 42}

\* A call returned no *ProcessStatus (nil).
NoStatus == [none |-> TRUE]

\* A call that has not been made yet.
IdleCall == [op |-> "none", pc |-> "idle", err |-> "none", status |-> NoStatus,
             pid |-> 0, life |-> "none", readStat |-> FALSE, raced |-> FALSE]

\* The commands handed to NewProcess: one that has not been started (0), as
\* in Worker.StartProcess, or one that the caller has started already and
\* that runs under the given pid, as in TestProcessStatus.
Commands == {0} \cup Pids

\* NewProcess, lines 24-31: the handle right after construction over the
\* command cmd.  Nothing is recorded for a child that the caller spawned:
\* startedAt is the zero time.
NewProcess(req, cmd) ==
    /\ cmdProcess = cmd
    /\ startedBy = req
    /\ startedAt = 0
    /\ finishedAt = 0
    /\ pmu = 0
    /\ prevStartedAt = 0
    /\ child = IF cmd = 0 THEN [st |-> "none", pid |-> 0]
               ELSE [st |-> "running", pid |-> cmd]
    /\ clock = 1
    /\ spawns = 0
    /\ kills = 0

\* NewWorker, part_003 lines 39-46: an empty registry; nothing has been made
\* or called yet.
NewWorker ==
    /\ processRegistry = <<>>
    /\ heap = <<>>
    /\ wcalls = <<>>

\* No /proc/<pid>/stat content has been handed to the parser.
NoStat ==
    /\ statFile = [ok |-> FALSE, data |-> <<>>]
    /\ statOut = [state |-> <<>>, err |-> "unread"]

\* ------------------------------------------------------------------- Init
\* State after NewOutputHandler returned and handleOutput spawned its goroutines.
\* MuxStartWith(ls) is everything but the readers' contents, with the
\* subscribers of ls already in o.listeners (their AddListener goroutines
\* ran to the end before any producer read).  The readers are
\* interchangeable, so the first is the one with more bytes.  The Process
\* handle exists, but no call is made on it while the multiplexer runs.
MuxStartWith(ls) ==
    /\ pos = [r \in Readers |-> 0]
    /\ prodPc = [r \in Readers |-> "read"]
    /\ lineBytes = [r \in Readers |-> <<>>]
    /\ wg = NumReaders
    /\ done = FALSE
    /\ combinedBuffer = <<>>
    /\ listeners = ls
    /\ mu = FALSE
    /\ bcPc = "select"
    /\ bcMsg = <<>>
    /\ bcIdx = 0
    /\ subPc = [s \in Subs |-> IF \E i \in 1..Len(ls) : ls[i] = s THEN "returned" ELSE "idle"]
    /\ received = [s \in Subs |-> <<>>]
    /\ errorsReceived = [s \in Subs |-> 0]
    /\ closeCount = [s \in Subs |-> 0]
    /\ panicked = FALSE
    /\ afterDone = [s \in Subs |-> FALSE]
    /\ entry = [s \in Subs |-> <<>>]
    /\ errSubs = {}
    /\ stalled = {}
    /\ newErr = "nil"

\* No AddListener call has been made.
MuxStart == MuxStartWith(<<>>)

\* The contents of the readers handed to NewOutputHandler.
ReaderContents ==
    /\ readers \in [Readers -> [data : SeqsUpTo(MaxBytes), fails : BOOLEAN]]
    /\ TotalBytes(readers) <= MaxBytes
    /\ Len(readers[1].data) >= Len(readers[2].data)

Init ==
    /\ ReaderContents
    /\ MuxStart
    /\ NewProcess("some_user", 0)
    /\ calls = <<>>
    /\ NewWorker
    /\ NoStat

\* --------------------------------------------------------------- producers
\* bufferAndForwardLines with an updateBuffer that stores the line in place
\* of the log instead of appending it.
ProducerReadRewrites(r) ==
    /\ prodPc[r] = "read"
    /\ LET rest == SubSeq(readers[r].data, pos[r] + 1, Len(readers[r].data))
           res == ReadBytes(Tagged(r, rest), readers[r].fails, NL)
       IN IF res.err = "nil"
          THEN /\ ~mu
               /\ pos' = [pos EXCEPT ![r] = pos[r] + Len(res.line)]
               /\ combinedBuffer' = res.line
               /\ lineBytes' = [lineBytes EXCEPT ![r] = res.line]
               /\ prodPc' = [prodPc EXCEPT ![r] = "send"]
               /\ wg' = wg
               /\ errSubs' = errSubs
          ELSE /\ pos' = [pos EXCEPT ![r] = pos[r] + Len(res.line)]
               /\ combinedBuffer' = combinedBuffer
               /\ lineBytes' = lineBytes
               /\ prodPc' = [prodPc EXCEPT ![r] = IF res.err = "EOF" THEN "exited" ELSE "errsend"]
               /\ wg' = IF res.err = "EOF" THEN wg - 1 ELSE wg
               /\ errSubs' = IF res.err = "EOF" THEN errSubs ELSE errSubs \cup Registered
    /\ UNCHANGED <<procVars, statVars, workerVars, envVars, readers, done, listeners, mu, bcVars, subPc, afterDone, entry, chanVars>>

\* bufferAndForwardLines, lines 175-184 (and wg.Done of line 156 on return):
\* one ReadBytes and what follows it up to the send on o.messages.  The read
\* touches only the producer's own reader, so it is taken together with the
\* updateBuffer that follows it.
\*   nil error: updateBuffer(lineBytes) appends under the mutex;
\*   io.EOF:    the loop breaks, lineBytes is dropped, wg.Done();
\*   other:     the producer sends on the errChan local to handleOutput,
\*              which has no receiver, and stays there.
ProducerRead(r) ==
    /\ prodPc[r] = "read"
    /\ LET rest == SubSeq(readers[r].data, pos[r] + 1, Len(readers[r].data))
           res == ReadBytes(Tagged(r, rest), readers[r].fails, NL)
       IN IF res.err = "nil"
          THEN /\ ~mu
               /\ pos' = [pos EXCEPT ![r] = pos[r] + Len(res.line)]
               /\ combinedBuffer' = combinedBuffer \o res.line
               /\ lineBytes' = [lineBytes EXCEPT ![r] = res.line]
               /\ prodPc' = [prodPc EXCEPT ![r] = "send"]
               /\ wg' = wg
               /\ errSubs' = errSubs
          ELSE /\ pos' = [pos EXCEPT ![r] = pos[r] + Len(res.line)]
               /\ combinedBuffer' = combinedBuffer
               /\ lineBytes' = lineBytes
               /\ prodPc' = [prodPc EXCEPT ![r] = IF res.err = "EOF" THEN "exited" ELSE "errsend"]
               /\ wg' = IF res.err = "EOF" THEN wg - 1 ELSE wg
               /\ errSubs' = IF res.err = "EOF" THEN errSubs ELSE errSubs \cup Registered
    /\ UNCHANGED <<procVars, statVars, workerVars, envVars, readers, done, listeners, mu, bcVars, subPc, afterDone, entry, chanVars>>

\* handleOutput closing o.done without wg.Wait().
CloseDoneNoWait ==
    /\ ~done
    /\ done' = TRUE
    /\ UNCHANGED <<procVars, statVars, workerVars, envVars, prodVars, combinedBuffer, listeners, mu, bcVars, subVars, chanVars>>

\* handleOutput, lines 160-164: wg.Wait() then close(o.done), in the
\* goroutine of a handler that NewOutputHandler has made.
CloseDone ==
    /\ newErr = "nil"
    /\ wg = 0
    /\ ~done
    /\ done' = TRUE
    /\ UNCHANGED <<procVars, statVars, workerVars, envVars, prodVars, combinedBuffer, listeners, mu, bcVars, subVars, chanVars>>

\* ------------------------------------------------------------- broadcaster
\* handleBroadcast, line 125 with line 185: the unbuffered o.messages hands
\* lineBytes from a producer to the broadcaster.
BroadcastRecv(r) ==
    /\ bcPc = "select"
    /\ prodPc[r] = "send"
    /\ bcMsg' = lineBytes[r]
    /\ bcPc' = "iterMsg"
    /\ bcIdx' = 1
    /\ prodPc' = [prodPc EXCEPT ![r] = "read"]
    /\ lineBytes' = [lineBytes EXCEPT ![r] = <<>>]
    /\ UNCHANGED <<procVars, statVars, workerVars, envVars, readers, pos, wg, done, combinedBuffer, listeners, mu, subVars, chanVars>>

\* handleBroadcast, line 129: the done case of the select.
BroadcastDone ==
    /\ bcPc = "select"
    /\ done
    /\ bcPc' = "iterClose"
    /\ bcIdx' = 1
    /\ UNCHANGED <<procVars, statVars, workerVars, envVars, prodVars, done, combinedBuffer, listeners, mu, bcMsg, subVars, chanVars>>

\* iterListeners, lines 111-116.  The mutex is released with the last step
\* of the range loop (at once when there is no listener); bcIdx is the next
\* listener to visit.  It is taken with the first step when that step
\* completes at once, and by IterLock when the first send has to wait.  No
\* other goroutine keeps the mutex from one step to the next, so a held
\* mutex is the broadcaster's.
IterHolds == ~mu \/ bcPc \in {"iterMsg", "iterClose"}

IterMu == bcIdx < Len(listeners)

IterNext(after) ==
    /\ mu' = IterMu
    /\ bcIdx' = IF IterMu THEN bcIdx + 1 ELSE 0
    /\ bcPc' = IF IterMu THEN bcPc ELSE after
    /\ bcMsg' = IF IterMu THEN bcMsg ELSE <<>>

\* IterSend with a send that does not wait: a subscriber that is not
\* receiving is passed over.
IterSendNoWait ==
    /\ bcPc = "iterMsg"
    /\ IterHolds
    /\ IF bcIdx <= Len(listeners)
       THEN LET l == listeners[bcIdx]
            IN IF closeCount[l] > 0
               THEN /\ panicked' = TRUE
                    /\ received' = received
               ELSE /\ received' = IF l \in stalled THEN received
                                   ELSE [received EXCEPT ![l] = Append(received[l], bcMsg)]
                    /\ panicked' = panicked
       ELSE UNCHANGED <<received, panicked>>
    /\ IterNext("select")
    /\ UNCHANGED <<procVars, statVars, workerVars, envVars, prodVars, done, combinedBuffer, listeners, subVars, errorsReceived, closeCount>>

\* handleBroadcast, lines 126-128: l.outputChan <- ProcessOutputEntry{Content: msg}
\* for the next listener.  The channel is unbuffered: the send completes when
\* the subscriber receives, and waits while the subscriber has stopped
\* receiving.
IterSend ==
    /\ bcPc = "iterMsg"
    /\ IterHolds
    /\ IF bcIdx <= Len(listeners)
       THEN LET l == listeners[bcIdx]
            IN IF closeCount[l] > 0
               THEN /\ panicked' = TRUE
                    /\ received' = received
               ELSE /\ l \notin stalled
                    /\ received' = [received EXCEPT ![l] = Append(received[l], bcMsg)]
                    /\ panicked' = panicked
       ELSE UNCHANGED <<received, panicked>>
    /\ IterNext("select")
    /\ UNCHANGED <<procVars, statVars, workerVars, envVars, prodVars, done, combinedBuffer, listeners, subVars, errorsReceived, closeCount>>

\* IterClose without the break of line 133: the broadcaster returns to its
\* select after closing the listeners.
IterCloseNoBreak ==
    /\ bcPc = "iterClose"
    /\ IterHolds
    /\ IF bcIdx <= Len(listeners)
       THEN LET l == listeners[bcIdx]
            IN /\ closeCount' = [closeCount EXCEPT ![l] = closeCount[l] + 1]
               /\ panicked' = (panicked \/ closeCount[l] > 0)
       ELSE UNCHANGED <<closeCount, panicked>>
    /\ IterNext("select")
    /\ UNCHANGED <<procVars, statVars, workerVars, envVars, prodVars, done, combinedBuffer, listeners, subVars, received, errorsReceived>>

\* handleBroadcast, lines 130-133: close(l.outputChan) for the next listener,
\* and break L after the last one.
IterClose ==
    /\ bcPc = "iterClose"
    /\ IterHolds
    /\ IF bcIdx <= Len(listeners)
       THEN LET l == listeners[bcIdx]
            IN /\ closeCount' = [closeCount EXCEPT ![l] = closeCount[l] + 1]
               /\ panicked' = (panicked \/ closeCount[l] > 0)
       ELSE UNCHANGED <<closeCount, panicked>>
    /\ IterNext("exited")
    /\ UNCHANGED <<procVars, statVars, workerVars, envVars, prodVars, done, combinedBuffer, listeners, subVars, received, errorsReceived>>

\* ------------------------------------------------------------- AddListener
\* AddListener, lines 70-75 and 89: make the channels, start the goroutine,
\* return the channels; the goroutine's first statement is o.bufferLen() > 0,
\* read under the mutex.  The call changes nothing shared, so it is taken
\* together with that first statement.  Listeners are interchangeable, so
\* they are numbered in the order in which their goroutines start.
AddListener(s) ==
    /\ newErr = "nil"
    /\ subPc[s] = "idle"
    /\ \A t \in Subs : t < s => subPc[t] # "idle"
    /\ ~mu
    /\ subPc' = [subPc EXCEPT ![s] = IF Len(combinedBuffer) > 0 THEN "backlog" ELSE "select"]
    /\ afterDone' = [afterDone EXCEPT ![s] = done]
    /\ entry' = entry
    /\ UNCHANGED <<procVars, statVars, workerVars, envVars, prodVars, done, combinedBuffer, listeners, mu, bcVars, errSubs, chanVars>>

\* A byte that no reader yielded: what a read beyond the bytes of the log
\* finds in memory.
Junk == 0

\* The line the next ReadBytes of producer r returns with a nil error, <<>>
\* when it returns an error.
NextLine(r) ==
    LET rest == SubSeq(readers[r].data, pos[r] + 1, Len(readers[r].data))
        res == ReadBytes(Tagged(r, rest), readers[r].fails, NL)
    IN IF res.err = "nil" THEN res.line ELSE <<>>

\* AddListener, line 76, the operand of the send: o.combinedBuffer is read
\* without the mutex, before the send begins.  The read either falls between
\* two appends and finds the log as it is, or overlaps the append of a
\* producer (updateBuffer, line 101), a data race: besides the log before
\* and after the append, which the other orders of the two steps give, the
\* goroutine can then find the old array with the new length, the old log
\* followed by bytes that are not the line's.
ListenerRead(s) ==
    /\ subPc[s] = "backlog"
    /\ subPc' = [subPc EXCEPT ![s] = "send"]
    /\ \/ /\ entry' = [entry EXCEPT ![s] = combinedBuffer]
          /\ UNCHANGED <<prodVars, combinedBuffer>>
       \/ \E r \in Readers :
             /\ prodPc[r] = "read"
             /\ NextLine(r) # <<>>
             /\ ~mu
             /\ entry' = [entry EXCEPT ![s] =
                              combinedBuffer \o [i \in 1..Len(NextLine(r)) |-> Junk]]
             /\ pos' = [pos EXCEPT ![r] = pos[r] + Len(NextLine(r))]
             /\ combinedBuffer' = combinedBuffer \o NextLine(r)
             /\ lineBytes' = [lineBytes EXCEPT ![r] = NextLine(r)]
             /\ prodPc' = [prodPc EXCEPT ![r] = "send"]
             /\ UNCHANGED <<readers, wg>>
    /\ UNCHANGED <<procVars, statVars, workerVars, envVars, done, listeners, mu, bcVars, afterDone,
                   errSubs, chanVars>>

\* AddListener, line 76, the send: the record that was read goes to the
\* subscriber once it receives, whatever the log has become since.
ListenerBacklog(s) ==
    /\ subPc[s] = "send"
    /\ IF closeCount[s] > 0
       THEN /\ panicked' = TRUE
            /\ received' = received
       ELSE /\ s \notin stalled
            /\ received' = [received EXCEPT ![s] = Append(received[s], entry[s])]
            /\ panicked' = panicked
    /\ subPc' = [subPc EXCEPT ![s] = "select"]
    /\ entry' = [entry EXCEPT ![s] = <<>>]
    /\ UNCHANGED <<procVars, statVars, workerVars, envVars, prodVars, done, combinedBuffer, listeners, mu, bcVars, afterDone, errSubs,
                   errorsReceived, closeCount>>

\* ListenerSelect without the done case: the listener is always registered.
ListenerSelectNoDone(s) ==
    /\ subPc[s] = "select"
    /\ subPc' = [subPc EXCEPT ![s] = "add"]
    /\ UNCHANGED <<procVars, statVars, workerVars, envVars, prodVars, done, combinedBuffer, listeners, mu, bcVars, afterDone, errSubs, entry,
                   chanVars>>

\* AddListener, lines 78-81: select on o.done with a default case.
ListenerSelect(s) ==
    /\ subPc[s] = "select"
    /\ IF done
       THEN /\ closeCount' = [closeCount EXCEPT ![s] = closeCount[s] + 1]
            /\ panicked' = (panicked \/ closeCount[s] > 0)
            /\ subPc' = [subPc EXCEPT ![s] = "returned"]
       ELSE /\ subPc' = [subPc EXCEPT ![s] = "add"]
            /\ UNCHANGED <<closeCount, panicked>>
    /\ UNCHANGED <<procVars, statVars, workerVars, envVars, prodVars, done, combinedBuffer, listeners, mu, bcVars, afterDone, errSubs, entry,
                   received, errorsReceived>>

\* addListener, lines 92-96 (called at line 82): append under the mutex.
ListenerAdd(s) ==
    /\ subPc[s] = "add"
    /\ ~mu
    /\ listeners' = Append(listeners, s)
    /\ subPc' = [subPc EXCEPT ![s] = "returned"]
    /\ UNCHANGED <<procVars, statVars, workerVars, envVars, prodVars, done, combinedBuffer, mu, bcVars, afterDone, errSubs, entry, chanVars>>

\* ------------------------------------------------------------------- Next
Next ==
    \/ \E r \in Readers : ProducerRead(r)
    \/ CloseDone
    \/ \E r \in Readers : BroadcastRecv(r)
    \/ BroadcastDone
    \/ IterSend
    \/ IterClose
    \/ \E s \in Subs : AddListener(s)
    \/ \E s \in Subs : ListenerRead(s)
    \/ \E s \in Subs : ListenerBacklog(s)
    \/ \E s \in Subs : ListenerSelect(s)
    \/ \E s \in Subs : ListenerAdd(s)

Spec == Init /\ [][Next]_vars

\* ------------------------------------------------------- NewOutputHandler
\* The constructor as an operation: the state before the call, the call on
\* zero or more readers, and a call of AddListener on the nil handler that a
\* failed construction returns.
CtorErr == "must provide at least one io.ReadCloser"

NoReader == [data |-> <<>>, fails |-> FALSE]

\* The rc ...io.Reader arguments: zero to NumReaders readers.
ReaderArgs ==
    LET All == UNION {[1..n -> [data : SeqsUpTo(CtorBytes), fails : BOOLEAN]] : n \in 0..NumReaders}
    IN {rc \in All : SumLen(rc, Len(rc)) <= CtorBytes}

\* NewOutputHandler has not been called: no handler, no goroutine.
NoHandler ==
    /\ readers = [r \in Readers |-> NoReader]
    /\ pos = [r \in Readers |-> 0]
    /\ prodPc = [r \in Readers |-> "none"]
    /\ lineBytes = [r \in Readers |-> <<>>]
    /\ wg = 0
    /\ done = FALSE
    /\ combinedBuffer = <<>>
    /\ listeners = <<>>
    /\ mu = FALSE
    /\ bcPc = "none"
    /\ bcMsg = <<>>
    /\ bcIdx = 0
    /\ subPc = [s \in Subs |-> "idle"]
    /\ received = [s \in Subs |-> <<>>]
    /\ errorsReceived = [s \in Subs |-> 0]
    /\ closeCount = [s \in Subs |-> 0]
    /\ panicked = FALSE
    /\ afterDone = [s \in Subs |-> FALSE]
    /\ entry = [s \in Subs |-> <<>>]
    /\ errSubs = {}
    /\ stalled = {}
    /\ newErr = "none"

\* NewOutputHandler without the len(rc) == 0 check.
NewOutputHandlerNoCheck(rc) ==
    /\ newErr = "none"
    /\ newErr' = "nil"
    /\ readers' = [r \in Readers |-> IF r <= Len(rc) THEN rc[r] ELSE NoReader]
    /\ prodPc' = [r \in Readers |-> IF r <= Len(rc) THEN "read" ELSE "none"]
    /\ wg' = Len(rc)
    /\ bcPc' = "select"
    /\ UNCHANGED <<procVars, statVars, workerVars, stalled, pos, lineBytes, done, combinedBuffer,
                   listeners, mu, bcMsg, bcIdx, subVars, chanVars>>

\* NewOutputHandler, lines 52-65, with handleOutput's wg.Add and go
\* statements (lines 143-158): with no reader it returns (nil, error) before
\* anything is made; otherwise the producers, the waiter and the broadcaster
\* are started.
NewOutputHandler(rc) ==
    /\ newErr = "none"
    /\ IF Len(rc) = 0
       THEN /\ newErr' = CtorErr
            /\ UNCHANGED <<readers, prodPc, wg, bcPc>>
       ELSE /\ newErr' = "nil"
            /\ readers' = [r \in Readers |-> IF r <= Len(rc) THEN rc[r] ELSE NoReader]
            /\ prodPc' = [r \in Readers |-> IF r <= Len(rc) THEN "read" ELSE "none"]
            /\ wg' = Len(rc)
            /\ bcPc' = "select"
    /\ UNCHANGED <<procVars, statVars, workerVars, stalled, pos, lineBytes, done, combinedBuffer,
                   listeners, mu, bcMsg, bcIdx, subVars, chanVars>>

\* AddListener, lines 70-89, on the nil *OutputHandler of a failed
\* construction: the goroutine's o.bufferLen() (line 75) dereferences nil at
\* o.mu (line 105) and the program panics.
AddListenerNil(s) ==
    /\ newErr = CtorErr
    /\ ~panicked
    /\ subPc[s] = "idle"
    /\ panicked' = TRUE
    /\ UNCHANGED <<procVars, statVars, workerVars, envVars, prodVars, done, combinedBuffer, listeners, mu,
                   bcVars, subVars, received, errorsReceived, closeCount>>

NewInit ==
    /\ NoHandler
    /\ NewProcess("some_user", 0)
    /\ calls = <<>>
    /\ NewWorker
    /\ NoStat

NewNext ==
    \/ \E rc \in ReaderArgs : NewOutputHandler(rc)
    \/ \E s \in Subs : AddListenerNil(s)
    \/ Next

SpecNew == NewInit /\ [][NewNext]_vars

\* A subscriber is attached before anything is read: AddListener is called
\* right after NewOutputHandler and its goroutine registers the listener
\* (empty log, done open) before the producers' first read.
EarlyInit ==
    /\ ReaderContents
    /\ MuxStartWith(<<1>>)
    /\ NewProcess("some_user", 0)
    /\ calls = <<>>
    /\ NewWorker
    /\ NoStat

SpecEarly == EarlyInit /\ [][Next]_vars

\* -------------------------------------------------- no subscriber attached
\* The goroutines NewOutputHandler starts, with no AddListener call ever
\* made.  The Go scheduler lets every goroutine that can step do so.
DrainNext ==
    \/ \E r \in Readers : ProducerRead(r)
    \/ CloseDone
    \/ \E r \in Readers : BroadcastRecv(r)
    \/ BroadcastDone
    \/ IterSend
    \/ IterClose

DrainFair ==
    /\ \A r \in Readers : WF_vars(ProducerRead(r))
    /\ WF_vars(CloseDone)
    /\ WF_vars(\E r \in Readers : BroadcastRecv(r))
    /\ WF_vars(BroadcastDone)
    /\ WF_vars(IterSend)
    /\ WF_vars(IterClose)

SpecDrain == Init /\ [][DrainNext]_vars /\ DrainFair

\* ------------------------------------------- a subscriber stops receiving
\* The caller of AddListener stops ranging over its output channel.  One
\* subscriber at most does so.
StopReceiving(s) ==
    /\ subPc[s] # "idle"
    /\ stalled = {}
    /\ stalled' = {s}
    /\ UNCHANGED <<procVars, statVars, workerVars, newErr, prodVars, done, combinedBuffer, listeners, mu,
                   bcVars, subVars, chanVars>>

\* iterListeners, line 111, when the send of line 127 that follows has to
\* wait: the broadcaster holds o.mu while it waits for the first listener
\* to receive, and updateBuffer, bufferLen and addListener wait for it.
IterLock ==
    /\ bcPc = "iterMsg"
    /\ bcIdx = 1
    /\ ~mu
    /\ Len(listeners) >= 1
    /\ listeners[1] \in stalled
    /\ mu' = TRUE
    /\ UNCHANGED <<procVars, statVars, workerVars, envVars, prodVars, done, combinedBuffer, listeners,
                   bcVars, subVars, chanVars>>

StallNext ==
    \/ Next
    \/ \E s \in Subs : StopReceiving(s)
    \/ IterLock

SpecStall == EarlyInit /\ [][StallNext]_vars

\* ------------------------------------------------------ /proc/<pid>/stat
\* strings.IndexRune: 0-based index of the first c in s, -1 if there is none.
IndexRune(s, c) ==
    IF \E i \in 1..Len(s) : s[i] = c
    THEN (CHOOSE i \in 1..Len(s) : s[i] = c /\ \A j \in 1..(i - 1) : s[j] # c) - 1
    ELSE -1

\* The Go slice expression s[k:], for 0 <= k <= len(s).
SliceFrom(s, k) == SubSeq(s, k + 1, Len(s))

\* strings.Split(s, sep) for a one-character separator: the fields between
\* the separators, always at least one field.
RECURSIVE Split(_, _)
Split(s, sep) ==
    LET i == IndexRune(s, sep)
    IN IF i = -1 THEN <<s>>
       ELSE <<SubSeq(s, 1, i)>> \o Split(SliceFrom(s, i + 1), sep)

DigitChar == <<"0", "1", "2", "3", "4", "5", "6", "7", "8", "9">>

\* The decimal digits of n, as the kernel prints a pid.
RECURSIVE Itoa(_)
Itoa(n) ==
    IF n < 10 THEN <<DigitChar[n + 1]>>
    ELSE Itoa(n \div 10) \o <<DigitChar[(n % 10) + 1]>>

\* What the kernel writes in /proc/<pid>/stat: pid, executable name in
\* parentheses, state, parent pid, ...
StatLine(pid, comm, st) ==
    Itoa(pid) \o <<" ", "(">> \o comm \o <<")", " ", st, " ">> \o Itoa(1)

\* ioutil.ReadFile failed.
Unreadable == [ok |-> FALSE, data |-> <<>>]

\* retrieveProcessState, lines 124-144, on the outcome of ioutil.ReadFile.
\* A slice bound beyond the end of data is a run-time panic.
retrieveProcessState(file) ==
    IF ~file.ok THEN [state |-> <<>>, err |-> "nil"]
    ELSE LET data == file.data
             binStart == IndexRune(data, "(") + 1
             binEnd == IndexRune(SliceFrom(data, binStart), ")")
             from == binStart + binEnd + 2
         IN IF from > Len(data) THEN [state |-> <<>>, err |-> "panic"]
            ELSE LET splittedData == Split(SliceFrom(data, from), " ")
                 IN IF Len(splittedData) < 1
                    THEN [state |-> <<>>, err |-> "malformed proc stat data"]
                    ELSE [state |-> splittedData[1], err |-> "nil"]

\* The characters an executable name is made of here.
CommChars == {"a", "(", ")", " "}

\* The state codes of proc(5) that retrieveProcessState names.
StateCodes == {"R", "D", "S", "T", "Z"}

\* Handle, child and multiplexer are not involved in parsing.
StatInit ==
    /\ readers = [r \in Readers |-> [data |-> <<>>, fails |-> FALSE]]
    /\ MuxStart
    /\ NewProcess("some_user", 0)
    /\ calls = <<>>
    /\ NewWorker
    /\ statOut = [state |-> <<>>, err |-> "unread"]
    /\ \E pid \in Pids, st \in StateCodes, n \in 0..MaxComm :
          \E comm \in [1..n -> CommChars] :
             statFile = [ok |-> TRUE, data |-> StatLine(pid, comm, st)]

\* One call of retrieveProcessState on the file.
ParseStat ==
    /\ statOut.err = "unread"
    /\ statOut' = retrieveProcessState(statFile)
    /\ UNCHANGED <<muxVars, procVars, workerVars, statFile>>

StatNext == ParseStat

SpecStat == StatInit /\ [][StatNext]_vars

\* ------------------------------------------------------- Process handle ops
\* The lifecycle of the handle: cmd.Process is nil until a spawn succeeded,
\* and the child is stopped once a kill signal has been sent to it.
Lifecycle ==
    IF cmdProcess = 0 THEN "NotStarted"
    ELSE IF kills = 0 THEN "Running" ELSE "Stopped"

\* The error exec.Cmd.Start returns when the OS refuses the spawn.
SpawnError == "fork/exec: spawn failed"

\* The executable name of the child in its stat file (sleep, as in the tests).
ChildComm == <<"s", "l", "e", "e", "p">>

\* Calls are made one after the other in the order of their numbers; a call
\* may still overlap the ones made before it.
CanBegin(c) ==
    /\ calls[c].pc = "idle"
    /\ IF c = 1 THEN TRUE ELSE calls[c - 1].pc # "idle"

Returned(c, op, err, st) ==
    [calls[c] EXCEPT !.op = op, !.pc = "done", !.err = err, !.status = st,
                     !.life = IF calls[c].life = "none" THEN Lifecycle ELSE calls[c].life]

\* A Start has spawned the child and has not released the mutex yet: what it
\* wrote is not yet ordered before the reads of a call that takes no lock.
Publishing == \E c \in Calls : calls[c].pc = "return"

\* The values a read outside the mutex may find in p.cmd.Process and in
\* p.startedAt.
SeenProcess == IF Publishing THEN {0, cmdProcess} ELSE {cmdProcess}
SeenStartedAt == IF Publishing THEN {prevStartedAt, startedAt} ELSE {startedAt}

\* Start without p.mu.Lock(): the check and the assignment run whoever holds
\* the mutex.
StartBeginNoLock(c) ==
    /\ CanBegin(c)
    /\ IF cmdProcess # 0
       THEN /\ calls' = [calls EXCEPT ![c] = Returned(c, "Start", "process already started", NoStatus)]
            /\ UNCHANGED <<handleVars, clock>>
       ELSE /\ calls' = [calls EXCEPT ![c] = [@ EXCEPT !.op = "Start", !.pc = "spawn",
                                                       !.life = Lifecycle]]
            /\ pmu' = c
            /\ prevStartedAt' = startedAt
            /\ startedAt' = clock
            /\ clock' = clock + 1
            /\ UNCHANGED <<cmdProcess, startedBy, finishedAt>>
    /\ UNCHANGED <<muxVars, statVars, workerVars, child, spawns, kills>>

\* Start, lines 45-50: lock, the check of p.cmd.Process, and the assignment
\* of startedAt.  A call that fails the check returns and unlocks at once.
StartBegin(c) ==
    /\ CanBegin(c)
    /\ pmu = 0
    /\ IF cmdProcess # 0
       THEN /\ calls' = [calls EXCEPT ![c] = Returned(c, "Start", "process already started", NoStatus)]
            /\ UNCHANGED <<handleVars, clock>>
       ELSE /\ calls' = [calls EXCEPT ![c] = [@ EXCEPT !.op = "Start", !.pc = "spawn",
                                                       !.life = Lifecycle]]
            /\ pmu' = c
            /\ prevStartedAt' = startedAt
            /\ startedAt' = clock
            /\ clock' = clock + 1
            /\ UNCHANGED <<cmdProcess, startedBy, finishedAt>>
    /\ UNCHANGED <<muxVars, statVars, workerVars, child, spawns, kills>>

\* exec.Cmd.Start that leaves a Process behind even when the spawn failed.
StartSpawnKeepsProcess(c) ==
    /\ calls[c].pc = "spawn"
    /\ \/ \E pid \in Pids :
             /\ cmdProcess' = pid
             /\ child' = [st |-> "running", pid |-> pid]
             /\ spawns' = spawns + 1
             /\ calls' = [calls EXCEPT ![c] = [@ EXCEPT !.pc = "return", !.err = "nil"]]
             /\ UNCHANGED <<pmu, prevStartedAt>>
       \/ \E pid \in Pids :
             /\ calls' = [calls EXCEPT ![c] = Returned(c, "Start", SpawnError, NoStatus)]
             /\ cmdProcess' = pid
             /\ pmu' = 0
             /\ prevStartedAt' = startedAt
             /\ UNCHANGED <<child, spawns>>
    /\ UNCHANGED <<muxVars, statVars, workerVars, startedBy, startedAt, finishedAt, clock, kills>>

\* Start, lines 51-55: exec.Cmd.Start.  On success it sets cmd.Process; on
\* failure it leaves cmd.Process nil and Start returns the error (and the
\* deferred unlock runs).
StartSpawn(c) ==
    /\ calls[c].pc = "spawn"
    /\ \/ \E pid \in Pids :
             /\ cmdProcess' = pid
             /\ child' = [st |-> "running", pid |-> pid]
             /\ spawns' = spawns + 1
             /\ calls' = [calls EXCEPT ![c] = [@ EXCEPT !.pc = "return", !.err = "nil"]]
             /\ UNCHANGED <<pmu, prevStartedAt>>
       \/ /\ calls' = [calls EXCEPT ![c] = Returned(c, "Start", SpawnError, NoStatus)]
          /\ pmu' = 0
          /\ prevStartedAt' = startedAt
          /\ UNCHANGED <<cmdProcess, child, spawns>>
    /\ UNCHANGED <<muxVars, statVars, workerVars, startedBy, startedAt, finishedAt, clock, kills>>

\* Start, line 55 and the deferred unlock of line 46.
StartReturn(c) ==
    /\ calls[c].pc = "return"
    /\ calls' = [calls EXCEPT ![c] = [@ EXCEPT !.pc = "done"]]
    /\ pmu' = 0
    /\ prevStartedAt' = startedAt
    /\ UNCHANGED <<muxVars, statVars, workerVars, cmdProcess, startedBy, startedAt, finishedAt,
                   child, clock, spawns, kills>>

\* os.Process.Kill on a child in state st: the signal is sent as long as the
\* child has not been waited for or released.
Kill(st) ==
    CASE st \in {"running", "killed", "zombie"} -> "nil"
      [] st = "reaped" -> "os: process already finished"
      [] OTHER -> "os: process already released"

\* cmd.Wait() by the owner of the command handed to NewProcess, which keeps
\* its *exec.Cmd: it returns once the child has ended, and the child is
\* reaped.  Kill on the os.Process then fails (process.go:58-61).
CmdWait ==
    /\ child.st = "zombie"
    /\ child' = [child EXCEPT !.st = "reaped"]
    /\ UNCHANGED <<muxVars, statVars, workerVars, handleVars, clock, spawns, kills, calls>>

\* The state of a child in state st once SIGKILL has been sent to it: the
\* kernel delivers the signal later, and until then the child is alive.
Signalled(st) == IF st = "running" THEN "killed" ELSE st

\* The child ends, on its own or by the SIGKILL that was sent to it; nothing
\* in the repository waits for it or releases it, so it stays a zombie.
ChildExit ==
    /\ child.st \in {"running", "killed"}
    /\ child' = [child EXCEPT !.st = "zombie"]
    /\ UNCHANGED <<muxVars, statVars, workerVars, handleVars, clock, spawns, kills, calls>>

\* Stop that also forgets the child, making the handle startable again.
StopRelease(c) ==
    /\ CanBegin(c)
    /\ pmu = 0
    /\ IF cmdProcess = 0
       THEN /\ calls' = [calls EXCEPT ![c] = Returned(c, "Stop", "process not started", NoStatus)]
            /\ UNCHANGED <<child, kills, handleVars>>
       ELSE /\ calls' = [calls EXCEPT ![c] = Returned(c, "Stop", Kill(child.st), NoStatus)]
            /\ child' = [child EXCEPT !.st = Signalled(child.st)]
            /\ kills' = kills + 1
            /\ cmdProcess' = 0
            /\ UNCHANGED <<startedBy, startedAt, finishedAt, pmu, prevStartedAt>>
    /\ UNCHANGED <<muxVars, statVars, workerVars, clock, spawns>>

\* Stop without the check of p.cmd.Process.
StopNoCheck(c) ==
    /\ CanBegin(c)
    /\ pmu = 0
    /\ calls' = [calls EXCEPT ![c] = Returned(c, "Stop", Kill(child.st), NoStatus)]
    /\ IF Kill(child.st) = "nil"
       THEN /\ child' = [child EXCEPT !.st = Signalled(child.st)]
            /\ kills' = kills + 1
       ELSE UNCHANGED <<child, kills>>
    /\ UNCHANGED <<muxVars, statVars, workerVars, handleVars, clock, spawns>>

\* Stop that records the time of the kill in finishedAt.
StopStampsFinishedAt(c) ==
    /\ CanBegin(c)
    /\ pmu = 0
    /\ IF cmdProcess = 0
       THEN /\ calls' = [calls EXCEPT ![c] = Returned(c, "Stop", "process not started", NoStatus)]
            /\ UNCHANGED <<child, kills, finishedAt>>
       ELSE /\ calls' = [calls EXCEPT ![c] = Returned(c, "Stop", Kill(child.st), NoStatus)]
            /\ finishedAt' = clock
            /\ IF Kill(child.st) = "nil"
               THEN /\ child' = [child EXCEPT !.st = Signalled(child.st)]
                    /\ kills' = kills + 1
               ELSE UNCHANGED <<child, kills>>
    /\ UNCHANGED <<muxVars, statVars, workerVars, cmdProcess, startedBy, startedAt, pmu,
                   prevStartedAt, clock, spawns>>

\* Stop, lines 63-70, under the mutex: the result of Kill is returned as is.
Stop(c) ==
    /\ CanBegin(c)
    /\ pmu = 0
    /\ IF cmdProcess = 0
       THEN /\ calls' = [calls EXCEPT ![c] = Returned(c, "Stop", "process not started", NoStatus)]
            /\ UNCHANGED <<child, kills>>
       ELSE /\ calls' = [calls EXCEPT ![c] = Returned(c, "Stop", Kill(child.st), NoStatus)]
            /\ IF Kill(child.st) = "nil"
               THEN /\ child' = [child EXCEPT !.st = Signalled(child.st)]
                    /\ kills' = kills + 1
               ELSE UNCHANGED <<child, kills>>
    /\ UNCHANGED <<muxVars, statVars, workerVars, handleVars, clock, spawns>>

\* The executable name of another process of the machine.
OtherComm == <<"c", "a", "t">>

\* What ioutil.ReadFile may find in /proc/<pid>/stat, a path made of the
\* number alone (line 125): the file of the child with one of the state codes
\* a live child (one that received no signal, or one whose SIGKILL is still
\* pending) or an unreaped child can have; once the child is reaped, the
\* file of whatever process the kernel has given the pid to since, in any
\* state; or a failure (no such pid, no procfs, no file descriptor left).
StatFiles(pid) ==
    {Unreadable} \cup
    IF pid # 0 /\ pid = child.pid
    THEN IF child.st = "reaped"
         THEN {[ok |-> TRUE, data |-> StatLine(pid, OtherComm, st)] : st \in StateCodes}
         ELSE {[ok |-> TRUE, data |-> StatLine(pid, ChildComm, st)] :
                  st \in IF child.st \in {"running", "killed"}
                         THEN {"R", "S", "D", "T"} ELSE {"Z"}}
    ELSE {}

\* A snapshot stamped with the time it is taken at.
SnapshotNow(pid, state, at) ==
    [pid |-> pid, startedBy |-> startedBy, state |-> state, startedAt |-> clock,
     finishedAt |-> finishedAt]

\* The ProcessStatus of lines 96-102.
Snapshot(pid, state, at) ==
    [pid |-> pid, startedBy |-> startedBy, state |-> state, startedAt |-> at,
     finishedAt |-> finishedAt]

\* GetProcessStatus without the nil check of line 87.
StatusBeginNoCheck(c) ==
    /\ CanBegin(c)
    /\ \E pid \in SeenProcess :
          calls' = [calls EXCEPT ![c] = [@ EXCEPT !.op = "Status", !.pc = "stat",
                                                  !.pid = pid, !.life = Lifecycle,
                                                  !.raced = Publishing]]
    /\ UNCHANGED <<muxVars, statVars, workerVars, handleVars, child, clock, spawns, kills>>

\* GetProcessStatus, lines 87-90, without the mutex: the nil check of
\* p.cmd.Process and the read of the pid by getPid (0 when it finds nil).
StatusBegin(c) ==
    /\ CanBegin(c)
    /\ \E p \in SeenProcess :
          IF p = 0
          THEN calls' = [calls EXCEPT ![c] = Returned(c, "Status", "process not started", NoStatus)]
          ELSE \E pid \in SeenProcess :
                  calls' = [calls EXCEPT ![c] = [@ EXCEPT !.op = "Status", !.pc = "stat",
                                                          !.pid = pid, !.life = Lifecycle,
                                                          !.raced = Publishing]]
    /\ UNCHANGED <<muxVars, statVars, workerVars, handleVars, child, clock, spawns, kills>>

\* GetProcessStatus, lines 91-102: retrieveProcessState and the snapshot of
\* the handle's fields.
StatusRead(c) ==
    /\ calls[c].pc = "stat"
    /\ \E file \in StatFiles(calls[c].pid), at \in SeenStartedAt :
          LET res == retrieveProcessState(file)
              call == [calls[c] EXCEPT !.readStat = TRUE,
                                       !.raced = calls[c].raced \/ Publishing]
          IN calls' = [calls EXCEPT ![c] =
                 IF res.err # "nil"
                 THEN [call EXCEPT !.pc = "done", !.err = res.err]
                 ELSE [call EXCEPT !.pc = "done", !.err = "nil",
                                   !.status = Snapshot(calls[c].pid, res.state, at)]]
    /\ UNCHANGED <<muxVars, statVars, workerVars, handleVars, child, clock, spawns, kills>>

\* A handle from NewProcess for any requester and any command, on which
\* NumCalls calls are going to be made; the multiplexer is left in its start state with empty
\* readers and plays no part.
ProcInit ==
    /\ readers = [r \in Readers |-> [data |-> <<>>, fails |-> FALSE]]
    /\ MuxStart
    /\ \E req \in Requesters, cmd \in Commands : NewProcess(req, cmd)
    /\ calls = [c \in Calls |-> IdleCall]
    /\ NewWorker
    /\ NoStat

ProcNext ==
    \/ \E c \in Calls : StartBegin(c)
    \/ \E c \in Calls : StartSpawn(c)
    \/ \E c \in Calls : StartReturn(c)
    \/ \E c \in Calls : Stop(c)
    \/ \E c \in Calls : StatusBegin(c)
    \/ \E c \in Calls : StatusRead(c)
    \/ ChildExit

SpecProc == ProcInit /\ [][ProcNext]_vars

\* The handle with a caller that also waits for the command it made.
ReapNext ==
    \/ ProcNext
    \/ CmdWait

SpecReap == ProcInit /\ [][ReapNext]_vars

\* ------------------------------------------------------------- WithStatus
\* The errors a callback handed to WithStatus returns.
CallbackErrors == {"nil", "callback failed"}

\* WithStatus without p.mu.Lock().
WithStatusBeginNoLock(c) ==
    /\ CanBegin(c)
    /\ IF cmdProcess = 0
       THEN /\ calls' = [calls EXCEPT ![c] = Returned(c, "WithStatus", "process not started", NoStatus)]
            /\ pmu' = pmu
       ELSE \E file \in StatFiles(cmdProcess) :
               LET res == retrieveProcessState(file)
                   call == [calls[c] EXCEPT !.op = "WithStatus", !.pid = cmdProcess,
                                            !.life = Lifecycle, !.readStat = TRUE]
               IN IF res.err # "nil"
                  THEN /\ calls' = [calls EXCEPT ![c] = [call EXCEPT !.pc = "done", !.err = res.err]]
                       /\ pmu' = pmu
                  ELSE /\ calls' = [calls EXCEPT ![c] =
                              [call EXCEPT !.pc = "callback",
                                           !.status = Snapshot(cmdProcess, res.state, startedAt)]]
                       /\ pmu' = pmu
    /\ UNCHANGED <<muxVars, statVars, workerVars, cmdProcess, startedBy, startedAt, finishedAt,
                   prevStartedAt, child, clock, spawns, kills>>

\* WithStatus, lines 111-116: lock, then GetProcessStatus (lines 87-102) with
\* the mutex held, so its reads are ordered after every Start.  An error
\* returns at once (and the deferred unlock runs); otherwise f is called with
\* the snapshot while the mutex stays held.
WithStatusBegin(c) ==
    /\ CanBegin(c)
    /\ pmu = 0
    /\ IF cmdProcess = 0
       THEN /\ calls' = [calls EXCEPT ![c] = Returned(c, "WithStatus", "process not started", NoStatus)]
            /\ pmu' = 0
       ELSE \E file \in StatFiles(cmdProcess) :
               LET res == retrieveProcessState(file)
                   call == [calls[c] EXCEPT !.op = "WithStatus", !.pid = cmdProcess,
                                            !.life = Lifecycle, !.readStat = TRUE]
               IN IF res.err # "nil"
                  THEN /\ calls' = [calls EXCEPT ![c] = [call EXCEPT !.pc = "done", !.err = res.err]]
                       /\ pmu' = 0
                  ELSE /\ calls' = [calls EXCEPT ![c] =
                              [call EXCEPT !.pc = "callback",
                                           !.status = Snapshot(cmdProcess, res.state, startedAt)]]
                       /\ pmu' = c
    /\ UNCHANGED <<muxVars, statVars, workerVars, cmdProcess, startedBy, startedAt, finishedAt,
                   prevStartedAt, child, clock, spawns, kills>>

\* WithStatus, line 117 and the deferred unlock of line 112: f returns and
\* its error is the result.
WithStatusReturn(c) ==
    /\ calls[c].pc = "callback"
    /\ \E e \in CallbackErrors :
          calls' = [calls EXCEPT ![c] = [@ EXCEPT !.pc = "done", !.err = e]]
    /\ pmu' = 0
    /\ UNCHANGED <<muxVars, statVars, workerVars, cmdProcess, startedBy, startedAt, finishedAt,
                   prevStartedAt, child, clock, spawns, kills>>

WithNext ==
    \/ ProcNext
    \/ \E c \in Calls : WithStatusBegin(c)
    \/ \E c \in Calls : WithStatusReturn(c)

SpecWith == ProcInit /\ [][WithNext]_vars

\* ----------------------------------------------------------------- Worker
\* The facade of src/unnamed/part_003.  A Process and the OutputHandler over
\* its two pipes are made together by StartProcess; heap[i] is the i-th such
\* pair, with what has been done to it since.
WCalls == 1..NumWCalls

\* The strings uuid.NewString can return (version 4 UUIDs, as many as there
\* are calls), also used as the identifiers callers look up.
IDs == {"uuid-" \o ToString(n) : n \in WCalls}

\* fmt.Errorf("no process with ID %s", processId)
NoProcessWithID(id) == "no process with ID " \o id

PipeError == "exec: Stdout already set"

IdleWCall == [op |-> "none", pc |-> "idle", id |-> "", err |-> "none", obj |-> 0]

\* Everything of the multiplexer but the flag of a panic.
muxIdleVars == <<prodVars, done, combinedBuffer, listeners, mu, bcVars, subVars, received,
                 errorsReceived, closeCount, envVars>>

\* Calls on the Worker are made in the order of their numbers and may
\* overlap; a panic ends the program.
CanCall(c) ==
    /\ ~panicked
    /\ wcalls[c].pc = "idle"
    /\ IF c = 1 THEN TRUE ELSE wcalls[c - 1].pc # "idle"

\* The identifiers handed out so far, inserted or about to be.
Minted == DOMAIN processRegistry \cup {wcalls[c].id : c \in {d \in WCalls : wcalls[d].op = "StartProcess"}}

\* A uuid.NewString that can return a string it returned before.
NewStringRepeats == IDs

\* uuid.NewString: a random UUID, taken as one that was never returned before.
NewString == IDs \ Minted

\* getFromRegistry, lines 125-130: the map read under the read lock; 0 for a
\* missing key (nil, false).
getFromRegistry(id) == IF id \in DOMAIN processRegistry THEN processRegistry[id] ELSE 0

\* StartProcess that makes the OutputHandler before it starts the process.
StartProcessBeginHandlerFirst(c) ==
    /\ CanCall(c)
    /\ \/ /\ wcalls' = [wcalls EXCEPT ![c] = [@ EXCEPT !.op = "StartProcess", !.pc = "done",
                                                       !.err = PipeError]]
          /\ heap' = heap
       \/ /\ wcalls' = [wcalls EXCEPT ![c] = [@ EXCEPT !.op = "StartProcess", !.pc = "done",
                                                       !.err = SpawnError]]
          /\ heap' = Append(heap, [started |-> FALSE, mux |-> TRUE, kills |-> 0, streams |-> 0])
       \/ \E id \in NewString :
             /\ wcalls' = [wcalls EXCEPT ![c] = [@ EXCEPT !.op = "StartProcess", !.pc = "insert",
                                                          !.id = id, !.obj = Len(heap) + 1]]
             /\ heap' = Append(heap, [started |-> TRUE, mux |-> TRUE, kills |-> 0, streams |-> 0])
    /\ UNCHANGED <<procVars, statVars, muxIdleVars, panicked, processRegistry>>

\* StartProcess that goes on to register the handle when process.Start
\* returned an error.
StartProcessBeginIgnoresStart(c) ==
    /\ CanCall(c)
    /\ \/ /\ wcalls' = [wcalls EXCEPT ![c] = [@ EXCEPT !.op = "StartProcess", !.pc = "done",
                                                       !.err = PipeError]]
          /\ heap' = heap
       \/ \E id \in NewString, ok \in BOOLEAN :
             /\ wcalls' = [wcalls EXCEPT ![c] = [@ EXCEPT !.op = "StartProcess", !.pc = "insert",
                                                          !.id = id, !.obj = Len(heap) + 1]]
             /\ heap' = Append(heap, [started |-> ok, mux |-> TRUE, kills |-> 0, streams |-> 0])
    /\ UNCHANGED <<procVars, statVars, muxIdleVars, panicked, processRegistry>>

\* StartProcess, lines 67-95: the pipes, NewProcess, process.Start, the
\* identifier and NewOutputHandler over the two pipes (which cannot fail, as
\* it is given two readers).  A failure returns ("", err); a Process whose
\* Start failed is dropped.
StartProcessBegin(c) ==
    /\ CanCall(c)
    /\ \/ /\ wcalls' = [wcalls EXCEPT ![c] = [@ EXCEPT !.op = "StartProcess", !.pc = "done",
                                                       !.err = PipeError]]
          /\ heap' = heap
       \/ /\ wcalls' = [wcalls EXCEPT ![c] = [@ EXCEPT !.op = "StartProcess", !.pc = "done",
                                                       !.err = SpawnError]]
          /\ heap' = Append(heap, [started |-> FALSE, mux |-> FALSE, kills |-> 0, streams |-> 0])
       \/ \E id \in NewString :
             /\ wcalls' = [wcalls EXCEPT ![c] = [@ EXCEPT !.op = "StartProcess", !.pc = "insert",
                                                          !.id = id, !.obj = Len(heap) + 1]]
             /\ heap' = Append(heap, [started |-> TRUE, mux |-> TRUE, kills |-> 0, streams |-> 0])
    /\ UNCHANGED <<procVars, statVars, muxIdleVars, panicked, processRegistry>>

\* addToRegistry, lines 118-122 (called at line 97): the map assignment under
\* the write lock; it overwrites an entry the key already has.
addToRegistry(c) ==
    /\ ~panicked
    /\ wcalls[c].pc = "insert"
    /\ processRegistry' = (wcalls[c].id :> wcalls[c].obj) @@ processRegistry
    /\ wcalls' = [wcalls EXCEPT ![c] = [@ EXCEPT !.pc = "return"]]
    /\ UNCHANGED <<procVars, statVars, muxIdleVars, panicked, heap>>

\* StartProcess, line 98: return id, nil.
StartProcessReturn(c) ==
    /\ ~panicked
    /\ wcalls[c].pc = "return"
    /\ wcalls' = [wcalls EXCEPT ![c] = [@ EXCEPT !.pc = "done", !.err = "nil"]]
    /\ UNCHANGED <<procVars, statVars, muxIdleVars, panicked, heap, processRegistry>>

\* getProcess / getOutputHandler, lines 102-115, as called first by
\* StopProcess, GetProcessStatus and StreamProcessOutput (lines 136, 146,
\* 157): the lookup under the read lock of getFromRegistry, and the error
\* returned for a missing identifier.  A call that found its entry holds the
\* Process or the OutputHandler of it, with no lock held, and has yet to
\* make its call on it.
Lookup(c, op, id) ==
    /\ CanCall(c)
    /\ LET obj == getFromRegistry(id)
       IN wcalls' = [wcalls EXCEPT ![c] =
              IF obj = 0
              THEN [@ EXCEPT !.op = op, !.pc = "done", !.id = id, !.err = NoProcessWithID(id)]
              ELSE [@ EXCEPT !.op = op, !.pc = "found", !.id = id, !.obj = obj]]
    /\ UNCHANGED <<procVars, statVars, muxIdleVars, panicked, heap, processRegistry>>

\* StopProcess, lines 136-139.
StopProcess(c, id) == Lookup(c, "StopProcess", id)

\* GetProcessStatus, lines 146-149.
GetProcessStatus(c, id) == Lookup(c, "GetProcessStatus", id)

\* StreamProcessOutput, lines 157-160.
StreamProcessOutput(c, id) == Lookup(c, "StreamProcessOutput", id)

\* Call c has found its entry for operation op and has not yet called it.
Found(c, op) == ~panicked /\ wcalls[c].pc = "found" /\ wcalls[c].op = op

\* StopProcess, line 140: proc.Stop() on the Process that was found, whatever
\* other calls have done to it since the lookup.
ProcStop(c) ==
    /\ Found(c, "StopProcess")
    /\ LET obj == wcalls[c].obj
       IN IF heap[obj].started
          THEN /\ wcalls' = [wcalls EXCEPT ![c] =
                      [@ EXCEPT !.pc = "done",
                                !.err = Kill(IF heap[obj].kills = 0 THEN "running"
                                             ELSE Signalled("running"))]]
               /\ heap' = [heap EXCEPT ![obj].kills = @ + 1]
          ELSE /\ wcalls' = [wcalls EXCEPT ![c] = [@ EXCEPT !.pc = "done",
                                                            !.err = "process not started"]]
               /\ heap' = heap
    /\ UNCHANGED <<procVars, statVars, muxIdleVars, panicked, processRegistry>>

\* GetProcessStatus, line 150: proc.GetProcessStatus() on the Process that
\* was found.
ProcGetProcessStatus(c) ==
    /\ Found(c, "GetProcessStatus")
    /\ wcalls' = [wcalls EXCEPT ![c] =
           [@ EXCEPT !.pc = "done",
                     !.err = IF heap[wcalls[c].obj].started THEN "nil"
                             ELSE "process not started"]]
    /\ UNCHANGED <<procVars, statVars, muxIdleVars, panicked, heap, processRegistry>>

\* StreamProcessOutput, lines 161-162: outputHandler.Stream() on the
\* OutputHandler that was found (AddListener in part_002, line 137).
HandlerStream(c) ==
    /\ Found(c, "StreamProcessOutput")
    /\ wcalls' = [wcalls EXCEPT ![c] = [@ EXCEPT !.pc = "done", !.err = "nil"]]
    /\ heap' = [heap EXCEPT ![wcalls[c].obj].streams = @ + 1]
    /\ UNCHANGED <<procVars, statVars, muxIdleVars, panicked, processRegistry>>

\* ---------------------------------------------- Worker of part_002
\* In src/unnamed/part_002 the registry is a plain map with no lock: the
\* insert of StartProcess (line 100) and the reads of getExec (line 106) and
\* StreamProcessOutput (line 137) run unsynchronised.  Go leaves a map
\* access that overlaps a write undefined: the runtime may stop the program
\* ("fatal error: concurrent map writes", "concurrent map read and map
\* write"), the write may be lost, or the access may go through.

\* The calls whose map assignment is under way; "raced" when another write
\* has overlapped it.
Writing == {d \in WCalls : wcalls[d].pc \in {"writing", "raced"}}

\* What an unlocked read of key id may find: the entry of the map, or the
\* one a write under way is storing.
SeenEntries(id) ==
    {getFromRegistry(id)} \cup {wcalls[d].obj : d \in {e \in Writing : wcalls[e].id = id}}

\* The runtime stops the program in call c.
MapFault(c, op, id) ==
    /\ wcalls' = [wcalls EXCEPT ![c] = [@ EXCEPT !.op = op, !.pc = "panic", !.id = id]]
    /\ panicked' = TRUE
    /\ UNCHANGED <<heap, processRegistry>>

\* StartProcess, part_002 line 100: w.processRegistry[id] = processHandle
\* begins.
InsertDirectBegin(c) ==
    /\ ~panicked
    /\ wcalls[c].pc = "insert"
    /\ wcalls' = [wcalls EXCEPT ![c] = [@ EXCEPT !.pc = "writing"]]
    /\ UNCHANGED <<procVars, statVars, muxIdleVars, panicked, heap, processRegistry>>

\* StartProcess, part_002 line 100: the map assignment ends.  When no other
\* write overlapped it the entry is stored; otherwise it is stored, or lost,
\* or the program is stopped.
InsertDirectEnd(c) ==
    /\ ~panicked
    /\ c \in Writing
    /\ LET raced == wcalls[c].pc = "raced" \/ Writing # {c}
           after == [d \in WCalls |->
                       IF d = c THEN [wcalls[d] EXCEPT !.pc = "return"]
                       ELSE IF d \in Writing THEN [wcalls[d] EXCEPT !.pc = "raced"]
                       ELSE wcalls[d]]
       IN \/ /\ processRegistry' = (wcalls[c].id :> wcalls[c].obj) @@ processRegistry
             /\ wcalls' = after
             /\ panicked' = panicked
          \/ /\ raced
             /\ processRegistry' = processRegistry
             /\ wcalls' = after
             /\ panicked' = panicked
          \/ /\ raced
             /\ processRegistry' = processRegistry
             /\ wcalls' = [wcalls EXCEPT ![c] = [@ EXCEPT !.pc = "panic"]]
             /\ panicked' = TRUE
    /\ UNCHANGED <<procVars, statVars, muxIdleVars, heap>>

\* getExec, part_002 lines 105-110, as called first by StopProcess and
\* GetProcessStatus (lines 116, 126): the unlocked map read and the error
\* for a missing identifier.  The call on the Process that was found (lines
\* 120, 130) is the step ProcStop or ProcGetProcessStatus.
LookupDirect(c, op, id) ==
    /\ CanCall(c)
    /\ \/ /\ Writing # {}
          /\ MapFault(c, op, id)
       \/ \E obj \in SeenEntries(id) :
             /\ panicked' = panicked
             /\ processRegistry' = processRegistry
             /\ heap' = heap
             /\ wcalls' = [wcalls EXCEPT ![c] =
                    IF obj = 0
                    THEN [@ EXCEPT !.op = op, !.pc = "done", !.id = id,
                                   !.err = NoProcessWithID(id)]
                    ELSE [@ EXCEPT !.op = op, !.pc = "found", !.id = id, !.obj = obj]]
    /\ UNCHANGED <<procVars, statVars, muxIdleVars>>

StopProcessDirect(c, id) == LookupDirect(c, "StopProcess", id)

GetProcessStatusDirect(c, id) == LookupDirect(c, "GetProcessStatus", id)

\* StreamProcessOutput of src/unnamed/part_002, lines 136-139:
\* w.processRegistry[processId].outputHandler with no check of the lookup.
\* A missing key yields a nil *ProcessHandle and the field access panics;
\* the AddListener on the handler that was found is the step HandlerStream.
StreamProcessOutputDirect(c, id) ==
    /\ CanCall(c)
    /\ \/ /\ Writing # {}
          /\ MapFault(c, "StreamProcessOutput", id)
       \/ \E obj \in SeenEntries(id) :
             /\ processRegistry' = processRegistry
             /\ heap' = heap
             /\ IF obj = 0
                THEN /\ wcalls' = [wcalls EXCEPT ![c] = [@ EXCEPT !.op = "StreamProcessOutput",
                                                                  !.pc = "panic", !.id = id]]
                     /\ panicked' = TRUE
                ELSE /\ wcalls' = [wcalls EXCEPT ![c] = [@ EXCEPT !.op = "StreamProcessOutput",
                                                                  !.pc = "found", !.id = id,
                                                                  !.obj = obj]]
                     /\ panicked' = panicked
    /\ UNCHANGED <<procVars, statVars, muxIdleVars>>

\* A Worker from NewWorker on which NumWCalls calls are going to be made;
\* the multiplexer and the Process handle of the other specifications stay
\* in their start states.
WorkerInit ==
    /\ readers = [r \in Readers |-> [data |-> <<>>, fails |-> FALSE]]
    /\ MuxStart
    /\ NewProcess("some_user", 0)
    /\ calls = <<>>
    /\ NoStat
    /\ processRegistry = <<>>
    /\ heap = <<>>
    /\ wcalls = [c \in WCalls |-> IdleWCall]

WorkerNext ==
    \/ \E c \in WCalls : StartProcessBegin(c)
    \/ \E c \in WCalls : addToRegistry(c)
    \/ \E c \in WCalls : StartProcessReturn(c)
    \/ \E c \in WCalls, id \in IDs : StopProcess(c, id)
    \/ \E c \in WCalls, id \in IDs : GetProcessStatus(c, id)
    \/ \E c \in WCalls, id \in IDs : StreamProcessOutput(c, id)
    \/ \E c \in WCalls : ProcStop(c)
    \/ \E c \in WCalls : ProcGetProcessStatus(c)
    \/ \E c \in WCalls : HandlerStream(c)

SpecWorker == WorkerInit /\ [][WorkerNext]_vars

\* The Worker of src/unnamed/part_002: StartProcess as above up to the
\* insert, then the unlocked map assignment, the unlocked lookups, and the
\* calls on what they found.
DirectNext ==
    \/ \E c \in WCalls : StartProcessBegin(c)
    \/ \E c \in WCalls : InsertDirectBegin(c)
    \/ \E c \in WCalls : InsertDirectEnd(c)
    \/ \E c \in WCalls : StartProcessReturn(c)
    \/ \E c \in WCalls, id \in IDs : StopProcessDirect(c, id)
    \/ \E c \in WCalls, id \in IDs : GetProcessStatusDirect(c, id)
    \/ \E c \in WCalls, id \in IDs : StreamProcessOutputDirect(c, id)
    \/ \E c \in WCalls : ProcStop(c)
    \/ \E c \in WCalls : ProcGetProcessStatus(c)
    \/ \E c \in WCalls : HandlerStream(c)

SpecDirect == WorkerInit /\ [][DirectNext]_vars


\* ------------------------------------------------------------------ claims
Closed(s) == closeCount[s] > 0

\* Nothing can happen any more: every goroutine has returned or is blocked for good.
Quiescent == ~ENABLED Next

AllEOF == \A r \in Readers : prodPc[r] = "exited"

\* The bytes of s that carry the tag of reader r, in order.
FromReader(s, r) == LET IsR(b) == ReaderOf(b) = r IN SelectSeq(s, IsR)

Count(s, b) == Cardinality({i \in 1..Len(s) : s[i] = b})

SameMultiset(s, t) ==
    /\ Len(s) = Len(t)
    /\ \A i \in 1..Len(s) : Count(s, s[i]) = Count(t, s[i])

\* C1: a subscriber whose output channel has been closed has received, in
\* its records taken together, exactly the log as it is once done is set (no
\* producer appends after done, so that is the log of the current state).
C1_ReceivedEqualsLog ==
    \A s \in Subs : Closed(s) => Concat(received[s]) = combinedBuffer

\* C2: from the moment the backlog snapshot of a new subscriber is taken
\* (the log was found empty, or its content was read) until the subscriber is
\* in o.listeners or its channel is closed, no step appends to the log and no
\* step of the broadcaster delivers a chunk.
InSubscribeWindow(s) == subPc[s] \in {"send", "select", "add"}

C2_SubscribeAtomic ==
    [][\A s \in Subs : InSubscribeWindow(s) =>
          /\ combinedBuffer' = combinedBuffer
          /\ (bcPc = "iterMsg" => bcIdx' = bcIdx)]_vars

\* C3: when every reader has reached EOF and nothing can happen any more,
\* the output channel of every subscriber is closed (a subscriber left with
\* an open channel in such a state waits forever).
C3_EveryChannelClosed ==
    (Quiescent /\ AllEOF) => \A s \in Subs : Closed(s)

\* C4: a subscriber whose output channel has been closed has received, of
\* each reader, exactly that reader's bytes, in the reader's order.
C4_ReaderOrderComplete ==
    \A s \in Subs : \A r \in Readers :
        Closed(s) => FromReader(Concat(received[s]), r) = Tagged(r, readers[r].data)

\* C5: two subscribers whose output channels have been closed have received
\* the same multiset of bytes.
C5_SameBytes ==
    \A s, t \in Subs :
        (Closed(s) /\ Closed(t)) => SameMultiset(Concat(received[s]), Concat(received[t]))

\* C6: a subscriber whose AddListener goroutine starts after done is set is
\* never put in o.listeners, never receives more than the one backlog record,
\* and once the goroutine has returned it has received the whole log as one
\* record (nothing when the log is empty) and its channel has been closed once.
C6_LateSubscriber ==
    \A s \in Subs : afterDone[s] =>
        /\ s \notin Registered
        /\ subPc[s] # "add"
        /\ received[s] \in {<<>>, <<combinedBuffer>>}
        /\ subPc[s] = "returned" =>
              /\ closeCount[s] = 1
              /\ received[s] = IF combinedBuffer = <<>> THEN <<>> ELSE <<combinedBuffer>>
        /\ subPc[s] # "returned" => closeCount[s] = 0

C6_Witness ==
    \E s \in Subs :
        /\ afterDone[s]
        /\ subPc[s] = "returned"
        /\ combinedBuffer # <<>>
        /\ received[s] = <<combinedBuffer>>
        /\ closeCount[s] = 1

\* C7: no record is sent on an output channel that has been closed, no output
\* channel is closed twice, and a closed channel belongs either to a listener
\* of o.listeners (closed by the broadcaster) or to one that never got there
\* (closed by AddListener), never both.
C7_CloseAfterRecords ==
    /\ ~panicked
    /\ \A s \in Subs : closeCount[s] <= 1
    /\ \A s \in Subs : (Closed(s) /\ s \in Registered) => bcPc \in {"iterClose", "exited"}

C7_Witness ==
    /\ ~panicked
    /\ \E s \in Subs :
        /\ s \in Registered
        /\ closeCount[s] = 1
        /\ Len(received[s]) >= 2
    /\ \E s \in Subs :
        /\ s \notin Registered
        /\ closeCount[s] = 1
        /\ Len(received[s]) = 1

\* C8: when every reader is empty and ends with EOF, and nothing can happen
\* any more, every subscriber has received no record and its output channel
\* is closed.
EmptyReaders == \A r \in Readers : readers[r].data = <<>> /\ ~readers[r].fails

C8_EmptyReadersClose ==
    (EmptyReaders /\ Quiescent) => \A s \in Subs : received[s] = <<>> /\ Closed(s)

\* C9: when a reader fails with a read error and nothing can happen any
\* more, every producer has exited, done is set and the output channel of
\* every subscriber is closed.
SomeReaderFails == \E r \in Readers : readers[r].fails

C9_ErrorDoesNotBlock ==
    (SomeReaderFails /\ Quiescent) =>
        /\ \A r \in Readers : prodPc[r] = "exited"
        /\ done
        /\ \A s \in Subs : Closed(s)

\* C10: no subscriber receives more than one error, and when nothing can
\* happen any more every subscriber that was registered when a producer hit
\* a fatal read error has received exactly one error on its error channel.
C10_ErrorDelivered ==
    /\ \A s \in Subs : errorsReceived[s] <= 1
    /\ Quiescent => \A s \in errSubs : errorsReceived[s] = 1

\* C11: at done (every reader has reached EOF), the bytes of the log that
\* originate from reader r are exactly r's full byte sequence, a final chunk
\* without a line break included.
C11_FullSequenceLogged ==
    done => \A r \in Readers :
                FromReader(combinedBuffer, r) = Tagged(r, readers[r].data)

\* 0-based index of the last c in s, -1 if there is none.
LastIndexRune(s, c) ==
    IF \E i \in 1..Len(s) : s[i] = c
    THEN (CHOOSE i \in 1..Len(s) : s[i] = c /\ \A j \in (i + 1)..Len(s) : s[j] # c) - 1
    ELSE -1

\* The first non-empty field of s, fields being separated by spaces.
FirstToken(s) ==
    LET fields == Split(s, " ")
        IsToken(f) == f # <<>>
        tokens == SelectSeq(fields, IsToken)
    IN IF tokens = <<>> THEN <<>> ELSE tokens[1]

Parsed == statOut.err # "unread"

\* C19: for every content of the status file the parser returns, without an
\* error, the whitespace-separated token that follows the last ')' of the
\* content, whatever the executable name contains.
C19_TokenAfterLastParen ==
    Parsed =>
        /\ statOut.err = "nil"
        /\ statOut.state =
              FirstToken(SliceFrom(statFile.data, LastIndexRune(statFile.data, ")") + 1))

\* -------------------------------------------------- claims on the handle
Done(c, op) == calls[c].op = op /\ calls[c].pc = "done"

\* Every call has been a Start on a handle made over a command that had not
\* been started, all have returned, and the OS refused no spawn.
AllStartsSpawnOk ==
    /\ calls[1].life = "NotStarted"
    /\ \A c \in Calls : Done(c, "Start") /\ calls[c].err # SpawnError

\* C12: the child is never spawned twice, and when all the calls on a handle
\* made over a command that had not been started are Start calls whose spawn
\* the OS accepts, exactly one returns success, all the others return
\* 'process already started', and the child has been spawned exactly once.
\* Over a command that the caller started, no Start spawns anything.
C12_ExactlyOneStart ==
    /\ spawns <= 1
    /\ (calls[1].life \in {"Running", "Stopped"}) => spawns = 0
    /\ AllStartsSpawnOk =>
          /\ Cardinality({c \in Calls : calls[c].err = "nil"}) = 1
          /\ \A c \in Calls : calls[c].err \in {"nil", "process already started"}
          /\ spawns = 1

C12_Witness ==
    /\ AllStartsSpawnOk
    /\ \E c \in Calls : calls[c].err = "process already started"

\* C13: every Stop on a handle that has been started returns success,
\* whether the child is running, has exited, has been killed before or has
\* been waited for; no error of the kill reaches the caller.
C13_StopIdempotent ==
    \A c \in Calls :
        (Done(c, "Stop") /\ calls[c].life # "NotStarted") => calls[c].err = "nil"

LifecycleSteps == {<<"NotStarted", "Running">>, <<"Running", "Stopped">>}

\* Call c takes the first step of a Start in this step.
BeginsStart(c) == calls[c].pc = "idle" /\ calls'[c].op = "Start"

\* C14: the lifecycle only moves from NotStarted to Running and from
\* Running to Stopped, and a Start made on a handle that is Running or
\* Stopped returns 'process already started' and leaves the handle as it is.
C14_LifecycleForward ==
    [][/\ Lifecycle' # Lifecycle => <<Lifecycle, Lifecycle'>> \in LifecycleSteps
       /\ \A c \in Calls :
             (BeginsStart(c) /\ Lifecycle # "NotStarted") =>
                 /\ calls'[c].pc = "done"
                 /\ calls'[c].err = "process already started"
                 /\ Lifecycle' = Lifecycle
                 /\ UNCHANGED <<handleVars, child, spawns>>]_vars

\* A Start made after a successful Stop has returned 'process already started'.
C14_Witness ==
    \E c \in Calls :
        /\ Done(c, "Start")
        /\ calls[c].life = "Stopped"
        /\ calls[c].err = "process already started"
        /\ Lifecycle = "Stopped"

\* Call c is a Stop made in this step.
BeginsStop(c) == calls[c].pc = "idle" /\ calls'[c].op = "Stop"

\* C15: a Stop on a handle that is NotStarted returns 'process not started',
\* sends no signal and leaves the handle and the lifecycle as they are.
C15_StopNotStarted ==
    [][\A c \in Calls :
          (BeginsStop(c) /\ Lifecycle = "NotStarted") =>
              /\ calls'[c].pc = "done"
              /\ calls'[c].err = "process not started"
              /\ kills' = kills
              /\ Lifecycle' = "NotStarted"
              /\ UNCHANGED <<handleVars, child>>]_vars

\* A Stop failed on the fresh handle and a later Start succeeded.
C15_Witness ==
    \E c, d \in Calls :
        /\ c < d
        /\ Done(c, "Stop") /\ calls[c].life = "NotStarted"
        /\ calls[c].err = "process not started"
        /\ Done(d, "Start") /\ calls[d].err = "nil"

\* C16: a Status made on a handle that is NotStarted returns at once with
\* 'process not started' and no snapshot, and has not read the status file.
C16_StatusNotStarted ==
    \A c \in Calls :
        (calls[c].op = "Status" /\ calls[c].life = "NotStarted") =>
            /\ calls[c].pc = "done"
            /\ calls[c].err = "process not started"
            /\ calls[c].status = NoStatus
            /\ ~calls[c].readStat

C16_Witness ==
    \E c \in Calls :
        /\ Done(c, "Status")
        /\ calls[c].life = "NotStarted"
        /\ calls[c].err = "process not started"

\* C17: a Status that read the status file never returns success with an
\* empty state: when the file cannot be opened or parsed the call returns an
\* error and no snapshot.
C17_NoEmptyState ==
    \A c \in Calls :
        (Done(c, "Status") /\ calls[c].readStat /\ calls[c].err = "nil") =>
            calls[c].status.state # <<>>

\* Call c takes a step of a Status, and returns a snapshot, in this step.
StatusStep(c) == calls'[c] # calls[c] /\ calls'[c].op = "Status"
StatusSucceeds(c) ==
    StatusStep(c) /\ calls'[c].pc = "done" /\ calls'[c].err = "nil"

\* C18: no step of a Status changes the handle or the child, and a Status
\* that succeeds on a handle whose Start has returned yields the pid of the
\* spawned child, the requester given to NewProcess and the startedAt that
\* Start recorded.
C18_SnapshotOfHandle ==
    [][\A c \in Calls :
          /\ StatusStep(c) => UNCHANGED <<handleVars, child, spawns, kills>>
          /\ (StatusSucceeds(c) /\ ~calls'[c].raced) =>
                /\ calls'[c].status.pid = child.pid
                /\ calls'[c].status.startedBy = startedBy
                /\ calls'[c].status.startedAt = startedAt]_vars

\* A Status made after Start returned has delivered a snapshot with a state.
C18_Witness ==
    \E c \in Calls :
        /\ spawns = 1
        /\ startedAt # 0
        /\ Done(c, "Status")
        /\ calls[c].err = "nil"
        /\ ~calls[c].raced
        /\ calls[c].status.state = <<"R">>
        /\ calls[c].status.pid = child.pid
        /\ calls[c].status.startedAt = startedAt

SpawnFailed(c) == Done(c, "Start") /\ calls[c].err = SpawnError

\* C20: a Start whose spawn the OS refuses returns the OS error and leaves
\* the handle NotStarted (it is NotStarted as long as no spawn has succeeded,
\* and no longer); a Stop or Status that then finds it NotStarted fails with
\* 'process not started', and a Start that then finds it NotStarted attempts
\* the spawn again instead of returning 'process already started'.
C20_FailedSpawnKeepsBudget ==
    /\ (\E c \in Calls : SpawnFailed(c)) =>
          ((Lifecycle = "NotStarted") <=> (spawns = 0))
    /\ \A c, d \in Calls :
          (SpawnFailed(c) /\ c < d /\ calls[d].life = "NotStarted") =>
              /\ calls[c].life = "NotStarted"
              /\ (Done(d, "Stop") \/ Done(d, "Status")) =>
                     calls[d].err = "process not started"
              /\ Done(d, "Start") => calls[d].err \in {"nil", SpawnError}

\* After a refused spawn a Stop failed with 'process not started' and a
\* second Start spawned the child.
C20_Witness ==
    \E c, d, e \in Calls :
        /\ c < d /\ d < e
        /\ SpawnFailed(c)
        /\ Done(d, "Stop") /\ calls[d].err = "process not started"
        /\ Done(e, "Start") /\ calls[e].err = "nil"
        /\ spawns = 1

\* ------------------------------------------- claims on the multiplexer, II
IsPrefix(s, t) == Len(s) <= Len(t) /\ SubSeq(t, 1, Len(s)) = s

NonEmptyReaders == {r \in Readers : readers[r].data # <<>>}

\* C26: subscriber 1 is attached before anything is read; at every moment
\* each record it has received holds the whole content of one reader, line
\* breaks or not, and it has received no more records than there are
\* non-empty readers.
C26_OneRecordPerReader ==
    /\ Len(received[1]) <= Cardinality(NonEmptyReaders)
    /\ \A i \in 1..Len(received[1]) :
          \E r \in NonEmptyReaders : received[1][i] = Tagged(r, readers[r].data)

\* C27: for subscriber 1, attached before anything is read, the
\* concatenation of the records received so far is at every moment a prefix
\* of the log.
C27_ReceivedPrefixOfLog ==
    IsPrefix(Concat(received[1]), combinedBuffer)

\* C28: once the broadcaster has closed the live subscriptions and exited,
\* every listener in o.listeners has a closed output channel (none is
\* appended afterwards).
C28_NoListenerAfterClose ==
    bcPc = "exited" => \A l \in Registered : Closed(l)

\* C30: done is set only when every producer has exited, so that every
\* chunk they read has been handed to the broadcaster; once set it is never
\* unset, and the log does not change any more.
C30_DoneOnce ==
    [][/\ (~done /\ done') =>
             /\ AllEOF
             /\ wg = 0
             /\ \A r \in Readers : lineBytes[r] = <<>> /\ pos[r] = Len(readers[r].data)
       /\ done => (done' /\ combinedBuffer' = combinedBuffer)]_vars

\* done is set, the log holds a chunk and the broadcaster has finished.
C30_Witness ==
    /\ done
    /\ combinedBuffer # <<>>
    /\ bcPc = "exited"

NoReaderFails == \A r \in Readers : ~readers[r].fails

\* C24: with no subscriber ever attached and readers that end with EOF,
\* eventually done is set and the log holds, of every reader, all its bytes.
C24_DrainsWithoutSubscriber ==
    NoReaderFails =>
        <>(/\ done
           /\ AllEOF
           /\ \A r \in Readers :
                 FromReader(combinedBuffer, r) = Tagged(r, readers[r].data))

\* The broadcaster is at the send of the current chunk to a subscriber that
\* has stopped receiving.
Stuck ==
    /\ bcPc = "iterMsg"
    /\ bcIdx \in 1..Len(listeners)
    /\ listeners[bcIdx] \in stalled

AcceptedCurrent(l) ==
    /\ received'[l] # <<>>
    /\ received'[l][Len(received'[l])] = bcMsg

\* C29: the broadcaster returns to its select for the next chunk only when
\* every listener of the live set has received the current one; and while it
\* waits for a subscriber that has stopped receiving it keeps the current
\* chunk, no listener of the live set receives anything, a producer that
\* has a chunk to hand over stays blocked on the message channel, and, as
\* it holds the mutex, nothing is appended to the log and no listener joins
\* the live set.
C29_SynchronousFanOut ==
    [][/\ (bcPc = "iterMsg" /\ bcPc' = "select") =>
             \A i \in 1..Len(listeners') : AcceptedCurrent(listeners'[i])
       /\ Stuck =>
             /\ bcPc' = "iterMsg" /\ bcMsg' = bcMsg /\ bcIdx' = bcIdx
             /\ \A l \in Registered : received'[l] = received[l]
             /\ \A r \in Readers : prodPc[r] = "send" => prodPc'[r] = "send"
       /\ (Stuck /\ mu) =>
             /\ mu'
             /\ combinedBuffer' = combinedBuffer
             /\ listeners' = listeners]_vars

\* The broadcaster waits, holding the mutex, for a stalled subscriber while
\* another subscriber is in the live set and a producer waits to hand over
\* the next chunk.
C29_Witness ==
    /\ Stuck
    /\ mu
    /\ Len(listeners) >= 2
    /\ \E r \in Readers : prodPc[r] = "send"

\* C23: NewOutputHandler on zero readers returns an error and no handler: no
\* producer, waiter or broadcaster goroutine runs, nothing is read or
\* logged, and no subscriber is ever attached or receives anything; a handler
\* that was made has at least one reader.
C23_NoHandlerWithoutReaders ==
    /\ newErr = "nil" => \E r \in Readers : prodPc[r] # "none"
    /\ newErr = CtorErr =>
          /\ \A r \in Readers : prodPc[r] = "none"
          /\ bcPc = "none"
          /\ ~done
          /\ combinedBuffer = <<>>
          /\ listeners = <<>>
          /\ \A s \in Subs : subPc[s] = "idle" /\ received[s] = <<>> /\ closeCount[s] = 0

\* The constructor failed and AddListener was then called on its nil result.
C23_Witness == newErr = CtorErr /\ panicked

\* A callback handed to WithStatus is running in call c.
InCallback(c) == calls[c].pc = "callback"

\* C25: while a callback of WithStatus runs, no Start or Stop on the handle
\* begins or takes effect (nothing is spawned or killed and the handle's
\* fields keep their values), and the snapshot the callback holds agrees
\* with the handle: same pid, requester and start time, taken at the
\* lifecycle the handle still has.  The mutex is held by that call until the
\* callback returns.
C25_WithStatusExcludesStartStop ==
    [][\A c \in Calls : InCallback(c) =>
          /\ pmu = c
          /\ calls[c].status.pid = cmdProcess
          /\ calls[c].status.startedBy = startedBy
          /\ calls[c].status.startedAt = startedAt
          /\ calls[c].life = Lifecycle
          /\ <<cmdProcess, startedBy, startedAt, finishedAt, spawns, kills>>' =
             <<cmdProcess, startedBy, startedAt, finishedAt, spawns, kills>>
          /\ \A d \in Calls : calls'[d].op \in {"Start", "Stop"} => calls'[d] = calls[d]
          /\ Lifecycle' = Lifecycle]_vars

\* A callback runs with the snapshot of a running child, on a handle that
\* is Running, while a later call has yet to be made.
C25_Witness ==
    \E c \in Calls :
       /\ InCallback(c)
       /\ Lifecycle = "Running"
       /\ child.st = "running"
       /\ calls[c].status.state = <<"R">>
       /\ c < NumCalls
       /\ calls[c + 1].pc = "idle"

\* ------------------------------------------------------ claims on the Worker
\* Call c is a lookup made with an identifier that is not in the registry.
UnknownLookup(c) ==
    /\ wcalls[c].pc = "idle"
    /\ wcalls'[c].op \in {"StopProcess", "GetProcessStatus", "StreamProcessOutput"}
    /\ wcalls'[c].id \notin DOMAIN processRegistry

\* C21: StopProcess, GetProcessStatus and StreamProcessOutput called with an
\* identifier that is not in the registry return the "no process with ID"
\* error, without a panic, and change neither the registry nor any Process
\* or OutputHandler.
C21_UnknownIdentifier ==
    [][\A c \in WCalls : UnknownLookup(c) =>
          /\ wcalls'[c].pc = "done"
          /\ wcalls'[c].err = NoProcessWithID(wcalls'[c].id)
          /\ ~panicked'
          /\ processRegistry' = processRegistry
          /\ heap' = heap]_vars

\* Every entry is a pair made by a StartProcess whose Start and
\* NewOutputHandler succeeded, no two identifiers share a pair, and the
\* StartProcess calls hold pairwise distinct identifiers.
RegistryOK ==
    /\ \A id \in DOMAIN processRegistry :
          /\ processRegistry[id] \in 1..Len(heap)
          /\ heap[processRegistry[id]].started
          /\ heap[processRegistry[id]].mux
    /\ \A id1, id2 \in DOMAIN processRegistry :
          processRegistry[id1] = processRegistry[id2] => id1 = id2
    /\ \A c, d \in WCalls :
          (/\ c # d
           /\ wcalls[c].op = "StartProcess" /\ wcalls[c].id # ""
           /\ wcalls[d].op = "StartProcess" /\ wcalls[d].id # "") => wcalls[c].id # wcalls[d].id

\* C22: at every step of any sequence of facade operations each identifier
\* of the registry maps to one started Process with its OutputHandler, the
\* identifiers of different StartProcess calls are pairwise distinct, and an
\* entry of the registry stays in it with the same pair.
C22_RegistryEntriesStable ==
    [][/\ RegistryOK'
       /\ \A id \in DOMAIN processRegistry :
             id \in DOMAIN processRegistry' /\ processRegistry'[id] = processRegistry[id]]_vars

\* Two processes are registered and one of them has been stopped through
\* the facade.
C22_Witness ==
    /\ Cardinality(DOMAIN processRegistry) >= 2
    /\ \E c \in WCalls : wcalls[c].op = "StopProcess" /\ wcalls[c].err = "nil"

\* -------------------------------------------- claims on the multiplexer, III
\* C31: the log is append-only: in every step the log before the step is a
\* prefix of the log after it, whichever goroutine takes the step (a
\* producer, the waiter, the broadcaster, an AddListener goroutine).
C31_LogAppendOnly ==
    [][IsPrefix(combinedBuffer, combinedBuffer')]_vars

\* The log holds two lines, done is set, and an AddListener call made after
\* that has run to its end.
C31_Witness ==
    /\ Len(combinedBuffer) >= 2
    /\ done
    /\ \E s \in Subs : afterDone[s] /\ subPc[s] = "returned" /\ received[s] # <<>>

\* C32: the log is read and written under the mutex only, by the
\* broadcaster's side: the backlog record of an AddListener goroutine is the
\* log as it was when the goroutine checked its length (the log does not
\* change between the check and the read), and no step of a producer
\* changes the log.
C32_LogUnderOneLockHold ==
    [][/\ \A s \in Subs : subPc[s] = "backlog" => combinedBuffer' = combinedBuffer
       /\ \A r \in Readers : prodPc'[r] # prodPc[r] => combinedBuffer' = combinedBuffer]_vars

\* ------------------------------------------------ claims on the handle, II
\* Call c is a Start that returns an error in this step.
StartFails(c) ==
    /\ calls[c].pc # "done"
    /\ calls'[c].pc = "done"
    /\ calls'[c].op = "Start"
    /\ calls'[c].err # "nil"

\* C33: startedAt is assigned once, by the Start that succeeds: a Start that
\* returns an error leaves startedAt at the value it had before the call
\* (and the other fields of the handle as they were), and after a
\* successful Start startedAt never changes.
C33_StartedAtSetOnce ==
    [][/\ \A c \in Calls : StartFails(c) =>
             /\ startedAt' = IF calls[c].pc = "spawn" THEN prevStartedAt ELSE startedAt
             /\ <<cmdProcess, startedBy, finishedAt>>' = <<cmdProcess, startedBy, finishedAt>>
       /\ cmdProcess # 0 => startedAt' = startedAt]_vars

\* C37: the state of every snapshot that a call returned without an error
\* is one of the one-character codes R, D, S, T, Z.
C37_StateIsACode ==
    \A c \in Calls :
        (calls[c].pc = "done" /\ calls[c].err = "nil" /\ calls[c].status # NoStatus) =>
            \E code \in StateCodes : calls[c].status.state = <<code>>

\* C38: finishedAt is never assigned: the handle's finishedAt and the
\* FinishedAt of every snapshot a call holds or returned are the zero time,
\* whatever Start, Stop, GetProcessStatus and WithStatus calls were made and
\* whether or not the child has exited.
C38_FinishedAtNeverSet ==
    /\ finishedAt = 0
    /\ \A c \in Calls : calls[c].status # NoStatus => calls[c].status.finishedAt = 0

\* The child was killed by Stop and a later call returned its snapshot as a
\* zombie.
C38_Witness ==
    /\ kills > 0
    /\ child.st = "zombie"
    /\ \E c \in Calls :
          /\ calls[c].pc = "done"
          /\ calls[c].status # NoStatus
          /\ calls[c].status.state = <<"Z">>
          /\ calls[c].status.startedAt # 0

\* --------------------------------------------------- claims on the Worker, II
\* Call c is a StartProcess that returns an error in this step.
StartProcessFails(c) ==
    /\ wcalls[c].pc # "done"
    /\ wcalls'[c].pc = "done"
    /\ wcalls'[c].op = "StartProcess"
    /\ wcalls'[c].err # "nil"

\* C34: a StartProcess that fails returns the empty identifier with its
\* error, leaves the registry as it was, and makes no OutputHandler (the
\* pairs made before are untouched; a Process whose Start failed may have
\* been made, without a handler).
C34_FailedStartProcess ==
    [][\A c \in WCalls : StartProcessFails(c) =>
          /\ wcalls'[c].id = ""
          /\ wcalls'[c].err \in {PipeError, SpawnError}
          /\ processRegistry' = processRegistry
          /\ IsPrefix(heap, heap')
          /\ \A i \in (Len(heap) + 1)..Len(heap') : ~heap'[i].mux]_vars

\* A StartProcess failed at the spawn, and another at the pipes, on a Worker
\* that has a registered process.
C34_Witness ==
    /\ DOMAIN processRegistry # {}
    /\ \E c \in WCalls : wcalls[c].op = "StartProcess" /\ wcalls[c].err = SpawnError
    /\ \E c \in WCalls : wcalls[c].op = "StartProcess" /\ wcalls[c].err = PipeError

\* C36: every Process of a registry entry has been started successfully, so
\* a StopProcess or GetProcessStatus that found its identifier never returns
\* "process not started".
C36_RegisteredAreStarted ==
    /\ \A id \in DOMAIN processRegistry : heap[processRegistry[id]].started
    /\ \A c \in WCalls :
          (wcalls[c].op \in {"StopProcess", "GetProcessStatus"} /\ wcalls[c].obj # 0) =>
              wcalls[c].err # "process not started"

\* A registered process was stopped through the facade and its status was
\* then asked for.
C36_Witness ==
    \E c, d \in WCalls :
       /\ c < d
       /\ wcalls[c].op = "StopProcess" /\ wcalls[c].err = "nil"
       /\ wcalls[d].op = "GetProcessStatus" /\ wcalls[d].err = "nil"
       /\ wcalls[c].obj = wcalls[d].obj

\* The StartProcess calls whose entry has been inserted: past addToRegistry.
Inserted == {c \in WCalls : wcalls[c].op = "StartProcess" /\ wcalls[c].pc \in {"return", "done"}
                            /\ wcalls[c].id # ""}

\* C35: an identifier is returned only after its entry is in the registry:
\* every StartProcess that is past its insert has its identifier in the
\* registry, the registry has exactly as many entries as there are such
\* calls, and a StopProcess, GetProcessStatus or StreamProcessOutput made
\* with an identifier of the registry finds its entry.
C35_ReturnedIdsAreFound ==
    [][/\ \A c \in Inserted' : wcalls'[c].id \in DOMAIN processRegistry'
       /\ Cardinality(DOMAIN processRegistry') = Cardinality(Inserted')
       /\ \A c \in WCalls :
             (/\ wcalls[c].pc = "idle"
              /\ wcalls'[c].op \in {"StopProcess", "GetProcessStatus", "StreamProcessOutput"}
              /\ wcalls'[c].id \in DOMAIN processRegistry) =>
                 /\ wcalls'[c].pc = "found"
                 /\ wcalls'[c].obj = processRegistry[wcalls'[c].id]]_vars

====
